---------------------------- MODULE Spec2Model ----------------------------
(***************************************************************************)
(* Model of the Tadata Python SDK: the OpenAPI spec loader                 *)
(* (tadata_sdk/openapi/source.py), the response schemas                    *)
(* (tadata_sdk/http/schemas.py), the transport client                      *)
(* (tadata_sdk/http/client.py) and the deploy orchestrator                 *)
(* (tadata_sdk/core/sdk.py).                                               *)
(*                                                                         *)
(* Strings are sequences of one-character strings, so that prefix tests,   *)
(* lower-casing and scalar resolution are computed on the characters.      *)
(* Python values are tagged records; JSON and YAML texts are syntax trees  *)
(* of scalars that keep their presentation style (plain or quoted).        *)
(***************************************************************************)
EXTENDS Integers, Sequences, FiniteSets, TLC

-----------------------------------------------------------------------------
(* Bounds of the model *)

\* number of deploy invocations followed in one behaviour
MaxCalls == 2

\* largest number of entries of the `paths` mapping of a generated document
MaxPaths == 1

-----------------------------------------------------------------------------
(* Characters and strings *)

Digits == {"0", "1", "2", "3", "4", "5", "6", "7", "8", "9"}

OctDigits == {"0", "1", "2", "3", "4", "5", "6", "7"}

DigitVal(c) ==
  CASE c = "0" -> 0 [] c = "1" -> 1 [] c = "2" -> 2 [] c = "3" -> 3
    [] c = "4" -> 4 [] c = "5" -> 5 [] c = "6" -> 6 [] c = "7" -> 7
    [] c = "8" -> 8 [] c = "9" -> 9

DigitChar(n) ==
  CASE n = 0 -> "0" [] n = 1 -> "1" [] n = 2 -> "2" [] n = 3 -> "3"
    [] n = 4 -> "4" [] n = 5 -> "5" [] n = 6 -> "6" [] n = 7 -> "7"
    [] n = 8 -> "8" [] n = 9 -> "9"

\* str.lower() on the letters the model uses
LowerChar(c) ==
  CASE c = "J" -> "j" [] c = "S" -> "s" [] c = "O" -> "o" [] c = "N" -> "n"
    [] c = "Y" -> "y" [] c = "A" -> "a" [] c = "M" -> "m" [] c = "L" -> "l"
    [] c = "T" -> "t" [] c = "X" -> "x"
    [] OTHER -> c

Lower(s) == [i \in 1..Len(s) |-> LowerChar(s[i])]

\* str.startswith(prefix)
StartsWith(s, prefix) ==
  /\ Len(s) >= Len(prefix)
  /\ \A i \in 1..Len(prefix) : s[i] = prefix[i]

\* str.endswith(suffix)
EndsWith(s, suffix) ==
  /\ Len(s) >= Len(suffix)
  /\ \A i \in 1..Len(suffix) : s[Len(s) - Len(suffix) + i] = suffix[i]

IsDigits(s) == Len(s) > 0 /\ \A i \in 1..Len(s) : s[i] \in Digits

RECURSIVE BaseVal(_, _)
\* value of a digit string in the given base
BaseVal(s, base) ==
  IF s = <<>> THEN 0
  ELSE BaseVal(SubSeq(s, 1, Len(s) - 1), base) * base + DigitVal(s[Len(s)])

RECURSIVE NatToChars(_)
\* decimal digits of a natural number
NatToChars(n) ==
  IF n < 10 THEN <<DigitChar(n)>>
  ELSE NatToChars(n \div 10) \o <<DigitChar(n % 10)>>

\* position of the first "." of s, 0 when there is none
DotPos(s) ==
  IF \E i \in 1..Len(s) : s[i] = "."
  THEN CHOOSE i \in 1..Len(s) : s[i] = "." /\ \A j \in 1..(i - 1) : s[j] # "."
  ELSE 0

-----------------------------------------------------------------------------
(* Python values *)

VNull == [t |-> "null"]
VBool(b) == [b |-> b, t |-> "bool"]
VInt(n) == [n |-> n, t |-> "int"]
VFloat(lex) == [f |-> lex, t |-> "float"]
VStr(s) == [s |-> s, t |-> "str"]
VDate(lex) == [d |-> lex, t |-> "date"]
VList(l) == [l |-> l, t |-> "list"]
VMap(m) == [m |-> m, t |-> "map"]

IsMap(v) == v.t = "map"
IsStr(v) == v.t = "str"

\* dict.get(key) with an absent marker
Has(v, key) == VStr(key) \in DOMAIN v.m
Get(v, key) == v.m[VStr(key)]

EmptyMap == VMap([k \in {} |-> VNull])

-----------------------------------------------------------------------------
(* Texts: syntax trees of JSON / YAML documents *)

TScalar(style, chars) == [chars |-> chars, node |-> "scalar", style |-> style]
TSeq(elems) == [elems |-> elems, node |-> "seq"]
TMapping(items) == [items |-> items, node |-> "mapping"]
\* text that neither parser accepts (unbalanced brackets, bad indentation)
TMalformed == [node |-> "malformed"]

Plain(chars) == TScalar("plain", chars)
DQ(chars) == TScalar("dq", chars)
SQ(chars) == TScalar("sq", chars)


\* literals of the two formats
NullChars == <<"n", "u", "l", "l">>
TrueChars == <<"t", "r", "u", "e">>
FalseChars == <<"f", "a", "l", "s", "e">>

RECURSIVE SetToSeq(_)
\* the elements of a finite set in some order (dict iteration order)
SetToSeq(S) ==
  IF S = {} THEN <<>>
  ELSE LET x == CHOOSE y \in S : TRUE IN <<x>> \o SetToSeq(S \ {x})

\* the last index of items whose key parses to k
LastIndex(keys, k) ==
  CHOOSE i \in 1..Len(keys) : keys[i] = k /\ \A j \in (i + 1)..Len(keys) : keys[j] # k

-----------------------------------------------------------------------------
(* json.dumps / json.loads *)

\* json.dumps coerces str, int, float, bool and None keys to strings
JsonKeyChars(k) ==
  CASE k.t = "str" -> k.s
    [] k.t = "int" -> NatToChars(k.n)
    [] k.t = "float" -> k.f
    [] k.t = "bool" -> IF k.b THEN TrueChars ELSE FalseChars
    [] k.t = "null" -> NullChars

RECURSIVE JsonSerializable(_)
\* whether json.dumps accepts the value (a date raises TypeError)
JsonSerializable(v) ==
  CASE v.t \in {"null", "bool", "int", "float", "str"} -> TRUE
    [] v.t = "date" -> FALSE
    [] v.t = "list" -> \A i \in 1..Len(v.l) : JsonSerializable(v.l[i])
    [] v.t = "map" ->
         \A k \in DOMAIN v.m :
           k.t \in {"null", "bool", "int", "float", "str"} /\ JsonSerializable(v.m[k])

RECURSIVE JsonDumps(_)
JsonDumps(v) ==
  CASE v.t = "null" -> Plain(NullChars)
    [] v.t = "bool" -> Plain(IF v.b THEN TrueChars ELSE FalseChars)
    [] v.t = "int" -> Plain(NatToChars(v.n))
    [] v.t = "float" -> Plain(v.f)
    [] v.t = "str" -> DQ(v.s)
    [] v.t = "list" -> TSeq([i \in 1..Len(v.l) |-> JsonDumps(v.l[i])])
    [] v.t = "map" ->
         LET ks == SetToSeq(DOMAIN v.m)
         IN  TMapping([i \in 1..Len(ks) |->
                        <<DQ(JsonKeyChars(ks[i])), JsonDumps(v.m[ks[i]])>>])

\* JSON number grammar: -?(0|[1-9][0-9]*) with an optional fraction
JsonIsInt(s) == IsDigits(s) /\ (Len(s) = 1 \/ s[1] # "0")

JsonIsFloat(s) ==
  LET p == DotPos(s)
  IN  /\ p > 1
      /\ JsonIsInt(SubSeq(s, 1, p - 1))
      /\ IsDigits(SubSeq(s, p + 1, Len(s)))

JsonScalarOk(x) ==
  \/ x.style = "dq"
  \/ /\ x.style = "plain"
     /\ \/ x.chars \in {NullChars, TrueChars, FalseChars}
        \/ JsonIsInt(x.chars)
        \/ JsonIsFloat(x.chars)

JsonScalar(x) ==
  IF x.style = "dq" THEN VStr(x.chars)
  ELSE IF x.chars = NullChars THEN VNull
  ELSE IF x.chars = TrueChars THEN VBool(TRUE)
  ELSE IF x.chars = FalseChars THEN VBool(FALSE)
  ELSE IF JsonIsInt(x.chars) THEN VInt(BaseVal(x.chars, 10))
  ELSE VFloat(x.chars)

RECURSIVE JsonValid(_)
\* FALSE when json.loads raises JSONDecodeError
JsonValid(x) ==
  CASE x.node = "malformed" -> FALSE
    [] x.node = "scalar" -> JsonScalarOk(x)
    [] x.node = "seq" -> \A i \in 1..Len(x.elems) : JsonValid(x.elems[i])
    [] x.node = "mapping" ->
         \A i \in 1..Len(x.items) :
           /\ x.items[i][1].node = "scalar"
           /\ x.items[i][1].style = "dq"
           /\ JsonValid(x.items[i][2])

RECURSIVE JsonLoads(_)
JsonLoads(x) ==
  CASE x.node = "scalar" -> JsonScalar(x)
    [] x.node = "seq" -> VList([i \in 1..Len(x.elems) |-> JsonLoads(x.elems[i])])
    [] x.node = "mapping" ->
         LET keys == [i \in 1..Len(x.items) |-> VStr(x.items[i][1].chars)]
         IN  VMap([k \in {keys[i] : i \in 1..Len(keys)} |->
                    JsonLoads(x.items[LastIndex(keys, k)][2])])

-----------------------------------------------------------------------------
(* yaml.dump / yaml.safe_load (YAML 1.1 implicit resolution) *)

YamlNulls == {<<>>, <<"~">>, NullChars, <<"N", "u", "l", "l">>, <<"N", "U", "L", "L">>}

YamlTrues ==
  {TrueChars, <<"T", "r", "u", "e">>, <<"T", "R", "U", "E">>,
   <<"y", "e", "s">>, <<"Y", "e", "s">>, <<"Y", "E", "S">>,
   <<"o", "n">>, <<"O", "n">>, <<"O", "N">>}

YamlFalses ==
  {FalseChars, <<"F", "a", "l", "s", "e">>, <<"F", "A", "L", "S", "E">>,
   <<"n", "o">>, <<"N", "o">>, <<"N", "O">>,
   <<"o", "f", "f">>, <<"O", "f", "f">>, <<"O", "F", "F">>}

YamlIsDecimal(s) == IsDigits(s) /\ (Len(s) = 1 \/ s[1] # "0")

YamlIsOctal(s) ==
  Len(s) > 1 /\ s[1] = "0" /\ \A i \in 1..Len(s) : s[i] \in OctDigits

\* [0-9]+\.[0-9]* or \.[0-9]+
YamlIsFloat(s) ==
  LET p == DotPos(s)
      int == SubSeq(s, 1, p - 1)
      frac == SubSeq(s, p + 1, Len(s))
  IN  /\ p > 0
      /\ \A i \in 1..Len(int) : int[i] \in Digits
      /\ \A i \in 1..Len(frac) : frac[i] \in Digits
      /\ Len(int) + Len(frac) > 0
      /\ (Len(int) = 0 => Len(frac) > 0)

\* [0-9]{4}-[0-9]{2}-[0-9]{2}
YamlIsDate(s) ==
  /\ Len(s) = 10
  /\ \A i \in 1..10 : IF i \in {5, 8} THEN s[i] = "-" ELSE s[i] \in Digits

RECURSIVE StripLeadingZeros(_)
StripLeadingZeros(s) ==
  IF Len(s) > 1 /\ s[1] = "0" THEN StripLeadingZeros(Tail(s)) ELSE s

RECURSIVE StripTrailingZeros(_)
StripTrailingZeros(s) ==
  IF Len(s) > 1 /\ s[Len(s)] = "0"
  THEN StripTrailingZeros(SubSeq(s, 1, Len(s) - 1)) ELSE s

\* repr() of the float a lexeme denotes
FloatRepr(s) ==
  LET p == DotPos(s)
      int == SubSeq(s, 1, p - 1)
      frac == SubSeq(s, p + 1, Len(s))
  IN  StripLeadingZeros(IF int = <<>> THEN <<"0">> ELSE int) \o <<".">>
        \o StripTrailingZeros(IF frac = <<>> THEN <<"0">> ELSE frac)

\* the value of a plain scalar
YamlResolve(s) ==
  IF s \in YamlNulls THEN VNull
  ELSE IF s \in YamlTrues THEN VBool(TRUE)
  ELSE IF s \in YamlFalses THEN VBool(FALSE)
  ELSE IF YamlIsDecimal(s) THEN VInt(BaseVal(s, 10))
  ELSE IF YamlIsOctal(s) THEN VInt(BaseVal(s, 8))
  ELSE IF YamlIsFloat(s) THEN VFloat(FloatRepr(s))
  ELSE IF YamlIsDate(s) THEN VDate(s)
  ELSE VStr(s)

YamlScalar(x) == IF x.style = "plain" THEN YamlResolve(x.chars) ELSE VStr(x.chars)

YamlIndicators ==
  {"#", ",", "[", "]", "{", "}", "&", "*", "!", "|", ">", "'", "%", "@"}

\* whether the emitter may write the string unquoted
YamlPlainAllowed(s) ==
  /\ s # <<>>
  /\ s[1] \notin YamlIndicators
  /\ ~(s[1] \in {"-", "?", ":"} /\ Len(s) = 1)
  /\ YamlResolve(s).t = "str"

YamlDumpScalar(v) ==
  CASE v.t = "null" -> Plain(NullChars)
    [] v.t = "bool" -> Plain(IF v.b THEN TrueChars ELSE FalseChars)
    [] v.t = "int" -> Plain(NatToChars(v.n))
    [] v.t = "float" -> Plain(v.f)
    [] v.t = "date" -> Plain(v.d)
    [] v.t = "str" -> IF YamlPlainAllowed(v.s) THEN Plain(v.s) ELSE SQ(v.s)

RECURSIVE YamlDump(_)
YamlDump(v) ==
  CASE v.t = "list" -> TSeq([i \in 1..Len(v.l) |-> YamlDump(v.l[i])])
    [] v.t = "map" ->
         LET ks == SetToSeq(DOMAIN v.m)
         IN  TMapping([i \in 1..Len(ks) |->
                        <<YamlDumpScalar(ks[i]), YamlDump(v.m[ks[i]])>>])
    [] OTHER -> YamlDumpScalar(v)

RECURSIVE YamlValid(_)
\* FALSE when yaml.safe_load raises YAMLError
YamlValid(x) ==
  CASE x.node = "malformed" -> FALSE
    [] x.node = "scalar" -> TRUE
    [] x.node = "seq" -> \A i \in 1..Len(x.elems) : YamlValid(x.elems[i])
    [] x.node = "mapping" ->
         \A i \in 1..Len(x.items) :
           x.items[i][1].node = "scalar" /\ YamlValid(x.items[i][2])

RECURSIVE YamlSafeLoad(_)
YamlSafeLoad(x) ==
  CASE x.node = "scalar" -> YamlScalar(x)
    [] x.node = "seq" -> VList([i \in 1..Len(x.elems) |-> YamlSafeLoad(x.elems[i])])
    [] x.node = "mapping" ->
         LET keys == [i \in 1..Len(x.items) |-> YamlScalar(x.items[i][1])]
         IN  VMap([k \in {keys[i] : i \in 1..Len(keys)} |->
                    YamlSafeLoad(x.items[LastIndex(keys, k)][2])])

-----------------------------------------------------------------------------
(* Errors: tadata_sdk/errors/exceptions.py *)

\* an exception object: class, message, status_code (empty set for None),
\* class of the chained cause ("None" when absent), details / body
Exc(cls, msg, status, cause, details) ==
  [cls |-> cls, msg |-> msg, status |-> status, cause |-> cause, details |-> details]

NoDetails == [none |-> TRUE]

\* a fixed message text (the part before any interpolated detail)
Msg(text) == [text |-> text]

SpecInvalidError(msg, details, cause) ==
  Exc("SpecInvalidError", msg, {400}, cause, details)

\* variant: the error reports 403
AuthErrorForbidden(msg, cause) == Exc("AuthError", msg, {403}, cause, NoDetails)

AuthError(msg, cause) == Exc("AuthError", msg, {401}, cause, NoDetails)

ApiError(msg, status_code, body, cause) ==
  Exc("ApiError", msg, {status_code}, cause, [body |-> body])

NetworkError(msg, cause) == Exc("NetworkError", msg, {}, cause, NoDetails)

\* an exception that is not one of the SDK's classes
Foreign(cls) == Exc(cls, Msg(""), {}, "None", NoDetails)

\* Python's class hierarchy of the exceptions the model raises
IsValueError(cls) ==
  cls \in {"ValueError", "ValidationError", "JSONDecodeError", "UnicodeDecodeError"}

\* outcome of a call: a returned value or a raised exception
Return(v) == [ok |-> TRUE, val |-> v]
Raise(e) == [ok |-> FALSE, err |-> e]

-----------------------------------------------------------------------------
(* OpenAPISpec: tadata_sdk/openapi/source.py *)

ThreeDot == <<"3", ".">>

K_openapi == <<"o", "p", "e", "n", "a", "p", "i">>
K_info == <<"i", "n", "f", "o">>
K_paths == <<"p", "a", "t", "h", "s">>
K_title == <<"t", "i", "t", "l", "e">>
K_version == <<"v", "e", "r", "s", "i", "o", "n">>
K_description == <<"d", "e", "s", "c", "r", "i", "p", "t", "i", "o", "n">>

\* variant: only the major version is tested
validate_major_only(v) == StartsWith(v, <<"3">>)

\* the field validator of `openapi`
validate_openapi_version(v) == StartsWith(v, ThreeDot)

\* OpenAPIInfo accepts a mapping with string title and version and an
\* optional string description; other keys are ignored
OpenAPIInfoValid(v) ==
  /\ IsMap(v)
  /\ Has(v, K_title) /\ IsStr(Get(v, K_title))
  /\ Has(v, K_version) /\ IsStr(Get(v, K_version))
  /\ Has(v, K_description) => Get(v, K_description).t \in {"str", "null"}

OpenAPIInfoOf(v) ==
  [title |-> Get(v, K_title).s,
   version |-> Get(v, K_version).s,
   description |-> IF Has(v, K_description) THEN Get(v, K_description) ELSE VNull]

\* whether OpenAPISpec.model_validate(data) succeeds
OpenAPISpecValid(data) ==
  /\ IsMap(data)
  /\ \A k \in DOMAIN data.m : IsStr(k)
  /\ Has(data, K_openapi) /\ IsStr(Get(data, K_openapi))
  /\ validate_openapi_version(Get(data, K_openapi).s)
  /\ Has(data, K_info) /\ OpenAPIInfoValid(Get(data, K_info))
  /\ Has(data, K_paths) /\ IsMap(Get(data, K_paths))
  /\ \A k \in DOMAIN Get(data, K_paths).m : IsStr(k)

\* the model instance: declared fields plus the extra top-level fields
OpenAPISpecOf(data) ==
  [openapi |-> Get(data, K_openapi).s,
   info |-> OpenAPIInfoOf(Get(data, K_info)),
   paths |-> Get(data, K_paths),
   extra |-> VMap([k \in DOMAIN data.m \ {VStr(K_openapi), VStr(K_info), VStr(K_paths)}
                    |-> data.m[k]])]

from_dict(data) ==
  IF OpenAPISpecValid(data)
  THEN Return(OpenAPISpecOf(data))
  ELSE Raise(SpecInvalidError(Msg("Invalid OpenAPI specification"), [data |-> data],
                              "ValidationError"))

from_json(json_str) ==
  IF JsonValid(json_str)
  THEN from_dict(JsonLoads(json_str))
  ELSE Raise(SpecInvalidError(Msg("Invalid JSON"), [json_str |-> json_str],
                              "JSONDecodeError"))

from_yaml(yaml_str) ==
  IF YamlValid(yaml_str)
  THEN from_dict(YamlSafeLoad(yaml_str))
  ELSE Raise(SpecInvalidError(Msg("Invalid YAML"), [yaml_str |-> yaml_str], "YAMLError"))

\* pathlib: a path is its file name and whether it is absolute
MkPath(name, abs) == [name |-> name, abs |-> abs]

\* Path.resolve()
Resolve(path) == [path EXCEPT !.abs = TRUE]

LastDot(name) ==
  IF \E i \in 1..Len(name) : name[i] = "."
  THEN CHOOSE i \in 1..Len(name) :
         name[i] = "." /\ \A j \in (i + 1)..Len(name) : name[j] # "."
  ELSE 0

\* variant: a leading dot starts a suffix too
SuffixOfDotfile(path) ==
  LET i == LastDot(path.name)
  IN  IF 0 < i /\ i < Len(path.name)
      THEN SubSeq(path.name, i, Len(path.name)) ELSE <<>>

\* Path.suffix: from the last dot, unless the dot starts or ends the name
Suffix(path) ==
  LET i == LastDot(path.name)
  IN  IF 1 < i /\ i < Len(path.name)
      THEN SubSeq(path.name, i, Len(path.name)) ELSE <<>>

DotJson == <<".", "j", "s", "o", "n">>
DotYaml == <<".", "y", "a", "m", "l">>
DotYml == <<".", "y", "m", "l">>

\* outcomes of Path.read_text(encoding="utf-8")
ReadText(text) == [io |-> "text", text |-> text]
ReadOSError == [io |-> "oserror"]
ReadUndecodable == [io |-> "undecodable"]

\* variant: every supported extension is handed to the JSON parser
from_file_as_json(file_path, read) ==
  LET resolved == [file_path EXCEPT !.abs = TRUE]
  IN  IF read.io = "oserror"
      THEN Raise(SpecInvalidError(Msg("Failed to read file"), [file_path |-> resolved],
                                  "OSError"))
      ELSE IF read.io = "undecodable"
      THEN Raise(Foreign("UnicodeDecodeError"))
      ELSE IF Lower(Suffix(resolved)) \in {DotJson, DotYaml, DotYml}
      THEN from_json(read.text)
      ELSE Raise(SpecInvalidError(Msg("Unsupported file extension"),
                                  [file_path |-> resolved], "None"))

\* from_file on a path whose read_text has the outcome `read`
from_file(file_path, read) ==
  LET resolved == Resolve(file_path)
  IN  IF read.io = "oserror"
      THEN Raise(SpecInvalidError(Msg("Failed to read file"), [file_path |-> resolved],
                                  "OSError"))
      ELSE IF read.io = "undecodable"
      THEN Raise(Foreign("UnicodeDecodeError"))
      ELSE IF Lower(Suffix(resolved)) = DotJson
      THEN from_json(read.text)
      ELSE IF Lower(Suffix(resolved)) \in {DotYaml, DotYml}
      THEN from_yaml(read.text)
      ELSE Raise(SpecInvalidError(Msg("Unsupported file extension"),
                                  [file_path |-> resolved], "None"))

\* model_dump(by_alias=True) of a specification
SpecDump(spec) ==
  LET infoKeys == {VStr(K_title), VStr(K_version), VStr(K_description)}
      info == VMap([k \in infoKeys |->
                     IF k = VStr(K_title) THEN VStr(spec.info.title)
                     ELSE IF k = VStr(K_version) THEN VStr(spec.info.version)
                     ELSE spec.info.description])
      own == {VStr(K_openapi), VStr(K_info), VStr(K_paths)}
  IN  VMap([k \in own \cup DOMAIN spec.extra.m |->
             IF k = VStr(K_openapi) THEN VStr(spec.openapi)
             ELSE IF k = VStr(K_info) THEN info
             ELSE IF k = VStr(K_paths) THEN spec.paths
             ELSE spec.extra.m[k]])

-----------------------------------------------------------------------------
(* Input documents *)

\* a mapping given by its sequence of <<key, value>> pairs (string keys)
MapOf(pairs) ==
  VMap([k \in {VStr(pairs[i][1]) : i \in 1..Len(pairs)} |->
         pairs[CHOOSE i \in 1..Len(pairs) : VStr(pairs[i][1]) = k][2]])

Absent == [absent |-> TRUE]

OpenapiChoices ==
  {Absent,
   VStr(<<"3", ".", "0", ".", "0">>), VStr(<<"3", ".", "1">>), VStr(ThreeDot),
   VStr(<<"2", ".", "0">>), VStr(<<"3">>), VStr(<<"3", "0">>), VStr(<<>>),
   VStr(<<"v", "3", ".", "0">>), VFloat(<<"3", ".", "0">>), VInt(3), VNull}

InfoChoices ==
  {Absent,
   MapOf(<< <<K_title, VStr(<<"T">>)>>, <<K_version, VStr(<<"1", ".", "0">>)>> >>),
   MapOf(<< <<K_title, VStr(<<"y", "e", "s">>)>>, <<K_version, VStr(<<"0", "1", "2">>)>>,
            <<K_description, VStr(<<"~">>)>> >>),
   MapOf(<< <<K_title, VStr(<<"T">>)>>, <<K_version, VStr(<<"1">>)>>,
            <<K_description, VNull>>, <<<<"x">>, VStr(<<"o", "n">>)>> >>),
   MapOf(<< <<K_title, VStr(<<"T">>)>> >>),
   MapOf(<< <<K_title, VInt(7)>>, <<K_version, VStr(<<"1">>)>> >>),
   VStr(<<"T">>)}

\* a path item: the operations of one path
PathItems ==
  {EmptyMap,
   MapOf(<< <<<<"2", "0", "0">>, VStr(<<"O", "K">>)>> >>),
   MapOf(<< <<<<"g", "e", "t">>, VList(<<VInt(200), VBool(TRUE), VFloat(<<"0", ".", "5">>),
                                        VStr(<<"n", "o">>), VNull>>)>> >>)}

PathName(i) == <<"/", DigitChar(i)>>

\* the `paths` mappings with n entries
PathsOfSize(n) ==
  {VMap([k \in {VStr(PathName(i)) : i \in 1..n} |-> f[k]]) :
     f \in [{VStr(PathName(i)) : i \in 1..n} -> PathItems]}

PathsChoices ==
  {Absent, VList(<<>>), VStr(<<"/", "1">>)}
    \cup UNION {PathsOfSize(n) : n \in 0..MaxPaths}

ExtraChoices ==
  {<<>>,
   << <<<<"s", "e", "r", "v", "e", "r", "s">>, VList(<<VStr(<<"u">>)>>)>> >>,
   << <<<<"x", "-", "n">>, VInt(200)>>, <<<<"x", "-", "s">>, VStr(<<"2", "0", "0">>)>> >>}

\* the document with the given top-level fields
MkDoc(openapi, info, paths, extra) ==
  LET own == << <<K_openapi, openapi>>, <<K_info, info>>, <<K_paths, paths>> >>
      present == SelectSeq(own, LAMBDA p : p[2] # Absent)
  IN  MapOf(present \o extra)

\* the mappings a caller may hand to the loader
Docs ==
  {MkDoc(o, i, p, e) :
     o \in OpenapiChoices, i \in InfoChoices, p \in PathsChoices, e \in ExtraChoices}

\* values that are not mappings
NonMappings == {VNull, VList(<<>>), VStr(<<"3", ".", "0">>)}

-----------------------------------------------------------------------------
(* Response schemas: tadata_sdk/http/schemas.py *)

K_ok == <<"o", "k">>
K_status == <<"s", "t", "a", "t", "u", "s">>
K_data == <<"d", "a", "t", "a">>
K_error == <<"e", "r", "r", "o", "r">>
K_code == <<"c", "o", "d", "e">>
K_message == <<"m", "e", "s", "s", "a", "g", "e">>
K_updated == <<"u", "p", "d", "a", "t", "e", "d">>
K_deployment == <<"d", "e", "p", "l", "o", "y", "m", "e", "n", "t">>
K_id == <<"i", "d">>
K_createdAt == <<"c", "r", "e", "a", "t", "e", "d", "A", "t">>
K_created_at == <<"c", "r", "e", "a", "t", "e", "d", "_", "a", "t">>

ErrorCode ==
  {<<"V", "A", "L", "I", "D", "A", "T", "I", "O", "N", "_", "E", "R", "R", "O", "R">>, <<"S", "E", "R", "V", "I", "C", "E", "_", "V", "A", "L", "I", "D", "A", "T", "I", "O", "N", "_", "E", "R", "R", "O", "R">>, <<"J", "S", "O", "N", "_", "P", "A", "R", "S", "E", "_", "E", "R", "R", "O", "R">>,
   <<"I", "N", "V", "A", "L", "I", "D", "_", "C", "O", "N", "T", "E", "N", "T", "_", "T", "Y", "P", "E">>, <<"A", "U", "T", "H", "_", "E", "R", "R", "O", "R">>, <<"N", "O", "T", "_", "F", "O", "U", "N", "D">>, <<"I", "N", "T", "E", "R", "N", "A", "L", "_", "E", "R", "R", "O", "R">>}

\* pydantic's lax bool: bool, 0/1, and the usual words
BoolTrueWords == {<<"1">>, <<"o", "n">>, <<"t">>, <<"t", "r", "u", "e">>, <<"y">>, <<"y", "e", "s">>}
BoolFalseWords == {<<"0">>, <<"o", "f", "f">>, <<"f">>, <<"f", "a", "l", "s", "e">>, <<"n">>, <<"n", "o">>}

BoolLaxValid(v) ==
  \/ v.t = "bool"
  \/ v.t = "int" /\ v.n \in {0, 1}
  \/ v.t = "float" /\ v.f \in {<<"0", ".", "0">>, <<"1", ".", "0">>}
  \/ v.t = "str" /\ Lower(v.s) \in BoolTrueWords \cup BoolFalseWords

BoolLax(v) ==
  CASE v.t = "bool" -> v.b
    [] v.t = "int" -> v.n = 1
    [] v.t = "float" -> v.f = <<"1", ".", "0">>
    [] v.t = "str" -> Lower(v.s) \in BoolTrueWords

\* whether a float lexeme has a zero fraction
IntegralFloat(lex) ==
  LET p == DotPos(lex)
  IN  \A i \in (p + 1)..Len(lex) : lex[i] = "0"

\* pydantic's lax int: int, bool, integral float, digit string
IntLaxValid(v) ==
  \/ v.t \in {"int", "bool"}
  \/ v.t = "float" /\ IntegralFloat(v.f)
  \/ v.t = "str" /\ IsDigits(v.s)

IntLax(v) ==
  CASE v.t = "int" -> v.n
    [] v.t = "bool" -> IF v.b THEN 1 ELSE 0
    [] v.t = "float" -> BaseVal(SubSeq(v.f, 1, DotPos(v.f) - 1), 10)
    [] v.t = "str" -> BaseVal(v.s, 10)

\* Optional[str]
OptStrValid(m, key) == Has(m, key) => Get(m, key).t \in {"str", "null"}

\* Optional[datetime]: an ISO date string or a numeric timestamp
OptDatetimeValid(m, key) ==
  Has(m, key) =>
    \/ Get(m, key).t \in {"null", "int"}
    \/ Get(m, key).t = "str" /\ YamlIsDate(Get(m, key).s)

\* DeploymentResponseData: id required; createdAt by alias or by name
DeploymentResponseDataValid(v) ==
  /\ IsMap(v)
  /\ Has(v, K_id) /\ IsStr(Get(v, K_id))
  /\ OptDatetimeValid(v, K_createdAt)
  /\ OptDatetimeValid(v, K_created_at)
  /\ OptStrValid(v, K_status)

DeploymentResponseDataOf(v) ==
  [id |-> Get(v, K_id).s,
   created_at |-> IF Has(v, K_createdAt) THEN Get(v, K_createdAt)
                  ELSE IF Has(v, K_created_at) THEN Get(v, K_created_at)
                  ELSE VNull]

UpsertDeploymentResponseDataValid(v) ==
  /\ IsMap(v)
  /\ Has(v, K_updated) /\ BoolLaxValid(Get(v, K_updated))
  /\ Has(v, K_deployment) /\ DeploymentResponseDataValid(Get(v, K_deployment))

UpsertDeploymentResponseDataOf(v) ==
  [updated |-> BoolLax(Get(v, K_updated)),
   deployment |-> DeploymentResponseDataOf(Get(v, K_deployment))]

\* schemas.ApiError: code is an ErrorCode, message a string
ApiErrorSchemaValid(v) ==
  /\ IsMap(v)
  /\ Has(v, K_code) /\ IsStr(Get(v, K_code)) /\ Get(v, K_code).s \in ErrorCode
  /\ Has(v, K_message) /\ IsStr(Get(v, K_message))

ApiErrorSchemaOf(v) == [code |-> Get(v, K_code).s, message |-> Get(v, K_message).s]

\* a field that is absent or null stays None
IsNone(m, key) == ~Has(m, key) \/ Get(m, key) = VNull

\* whether DeploymentResponse.model_validate(v) succeeds (extra keys forbidden)
DeploymentResponseValid(v) ==
  /\ IsMap(v)
  /\ DOMAIN v.m \subseteq {VStr(K_ok), VStr(K_status), VStr(K_data), VStr(K_error)}
  /\ Has(v, K_ok) /\ BoolLaxValid(Get(v, K_ok))
  /\ Has(v, K_status) /\ IntLaxValid(Get(v, K_status))
  /\ IsNone(v, K_data) \/ UpsertDeploymentResponseDataValid(Get(v, K_data))
  /\ IsNone(v, K_error) \/ ApiErrorSchemaValid(Get(v, K_error))

DeploymentResponseOf(v) ==
  [ok |-> BoolLax(Get(v, K_ok)),
   status |-> IntLax(Get(v, K_status)),
   data |-> IF IsNone(v, K_data) THEN VNull
            ELSE UpsertDeploymentResponseDataOf(Get(v, K_data)),
   error |-> IF IsNone(v, K_error) THEN VNull
             ELSE ApiErrorSchemaOf(Get(v, K_error))]

-----------------------------------------------------------------------------
(* Transport client: tadata_sdk/http/client.py *)

\* what client.request() produced: a response, or a raised httpx.RequestError
Response(status, body) == [kind |-> "response", status |-> status, body |-> body]
RequestFailed == [kind |-> "request_error"]

\* httpx.Response.is_success
IsSuccessStatus(status) == 200 <= status /\ status <= 299

\* httpx.Response.is_error
IsErrorStatus(status) == 400 <= status /\ status <= 599

\* "API error: {status_code}"
DefaultErrorMsg(status) == [text |-> "API error", code |-> status]

\* the message and the error data _handle_response_error extracts; a body that
\* is not JSON, or whose "error" entry has no get(), ends in the except branch
ErrorData(response) ==
  LET fallback == [msg |-> DefaultErrorMsg(response.status),
                   data |-> [body_text |-> response.body]]
  IN  IF ~JsonValid(response.body) THEN fallback
      ELSE LET v == JsonLoads(response.body)
           IN  IF ~IsMap(v) THEN [msg |-> DefaultErrorMsg(response.status), data |-> v]
               ELSE IF ~Has(v, K_error)
               THEN [msg |-> DefaultErrorMsg(response.status), data |-> v]
               ELSE IF ~IsMap(Get(v, K_error)) THEN fallback
               ELSE IF Has(Get(v, K_error), K_message)
               THEN [msg |-> [value |-> Get(Get(v, K_error), K_message)], data |-> v]
               ELSE [msg |-> DefaultErrorMsg(response.status), data |-> v]

AuthStatuses == {401, 403}

\* variant: only 401 is taken for an authentication error
handle_response_error_401_only(response) ==
  LET e == ErrorData(response)
  IN  IF response.status = 401
      THEN AuthError(e.msg, "Exception")
      ELSE ApiError(e.msg, response.status, e.data, "None")

\* the exception _handle_response_error raises
handle_response_error(response) ==
  LET e == ErrorData(response)
  IN  IF response.status \in AuthStatuses
      THEN AuthError(e.msg, "Exception")
      ELSE ApiError(e.msg, response.status, e.data, "None")

\* the exception _handle_request_error raises
handle_request_error == NetworkError(Msg("Network error occurred"), "RequestError")

\* _request: the response, or the domain error raised in its place
request(exchange) ==
  IF exchange.kind = "request_error" THEN Raise(handle_request_error)
  ELSE IF IsErrorStatus(exchange.status) THEN Raise(handle_response_error(exchange))
  ELSE Return(exchange)

\* the except branch of deploy_from_openapi evaluates response.json() again
ParseFailure(response) ==
  IF JsonValid(response.body)
  THEN ApiError(Msg("Failed to parse deployment response"), response.status,
                JsonLoads(response.body), "ValidationError")
  ELSE Foreign("JSONDecodeError")

deploy_from_openapi(exchange) ==
  LET r == request(exchange)
  IN  IF ~r.ok THEN r
      ELSE IF JsonValid(r.val.body) /\ DeploymentResponseValid(JsonLoads(r.val.body))
      THEN Return(DeploymentResponseOf(JsonLoads(r.val.body)))
      ELSE Raise(ParseFailure(r.val))

-----------------------------------------------------------------------------
(* Request schemas: tadata_sdk/http/schemas.py *)

K_passHeaders == <<"p", "a", "s", "s", "H", "e", "a", "d", "e", "r", "s">>
K_passQueryParams == <<"p", "a", "s", "s", "Q", "u", "e", "r", "y", "P", "a", "r", "a", "m", "s">>
K_passJsonBodyParams == <<"p", "a", "s", "s", "J", "s", "o", "n", "B", "o", "d", "y", "P", "a", "r", "a", "m", "s">>
K_passFormDataParams == <<"p", "a", "s", "s", "F", "o", "r", "m", "D", "a", "t", "a", "P", "a", "r", "a", "m", "s">>
K_pass_headers == <<"p", "a", "s", "s", "_", "h", "e", "a", "d", "e", "r", "s">>
K_pass_query_params == <<"p", "a", "s", "s", "_", "q", "u", "e", "r", "y", "_", "p", "a", "r", "a", "m", "s">>
K_pass_json_body_params == <<"p", "a", "s", "s", "_", "j", "s", "o", "n", "_", "b", "o", "d", "y", "_", "p", "a", "r", "a", "m", "s">>
K_pass_form_data_params == <<"p", "a", "s", "s", "_", "f", "o", "r", "m", "_", "d", "a", "t", "a", "_", "p", "a", "r", "a", "m", "s">>

DefaultPassHeaders ==
  VList(<<VStr(<<"a", "u", "t", "h", "o", "r", "i", "z", "a", "t", "i", "o", "n">>), VStr(<<"a", "p", "i", "-", "k", "e", "y">>), VStr(<<"a", "p", "i", "_", "k", "e", "y">>),
          VStr(<<"a", "p", "i", "k", "e", "y">>), VStr(<<"x", "-", "a", "p", "i", "-", "k", "e", "y">>), VStr(<<"x", "-", "a", "p", "i", "k", "e", "y">>)>>)

DefaultPassQueryParams == VList(<<VStr(<<"a", "p", "i", "-", "k", "e", "y">>), VStr(<<"a", "p", "i", "_", "k", "e", "y">>), VStr(<<"a", "p", "i", "k", "e", "y">>)>>)

\* List[str]
StrListValid(v) == v.t = "list" /\ \A i \in 1..Len(v.l) : IsStr(v.l[i])

\* a field given by its alias or (populate_by_name) by its name
AuthFieldValid(v, alias, name) ==
  /\ Has(v, alias) => StrListValid(Get(v, alias))
  /\ Has(v, name) => StrListValid(Get(v, name))

AuthField(v, alias, name, default) ==
  IF Has(v, alias) THEN Get(v, alias)
  ELSE IF Has(v, name) THEN Get(v, name)
  ELSE default

\* whether AuthConfig.model_validate(v) succeeds
AuthConfigValid(v) ==
  /\ IsMap(v)
  /\ AuthFieldValid(v, K_passHeaders, K_pass_headers)
  /\ AuthFieldValid(v, K_passQueryParams, K_pass_query_params)
  /\ AuthFieldValid(v, K_passJsonBodyParams, K_pass_json_body_params)
  /\ AuthFieldValid(v, K_passFormDataParams, K_pass_form_data_params)

\* variant: a field that is not given is left empty
AuthConfigOfWithoutDefaults(v) ==
  [passHeaders |-> AuthField(v, K_passHeaders, K_pass_headers, VList(<<>>)),
   passQueryParams |->
     AuthField(v, K_passQueryParams, K_pass_query_params, VList(<<>>)),
   passJsonBodyParams |->
     AuthField(v, K_passJsonBodyParams, K_pass_json_body_params, VList(<<>>)),
   passFormDataParams |->
     AuthField(v, K_passFormDataParams, K_pass_form_data_params, VList(<<>>))]

AuthConfigOf(v) ==
  [passHeaders |-> AuthField(v, K_passHeaders, K_pass_headers, DefaultPassHeaders),
   passQueryParams |->
     AuthField(v, K_passQueryParams, K_pass_query_params, DefaultPassQueryParams),
   passJsonBodyParams |->
     AuthField(v, K_passJsonBodyParams, K_pass_json_body_params, VList(<<>>)),
   passFormDataParams |->
     AuthField(v, K_passFormDataParams, K_pass_form_data_params, VList(<<>>))]

\* AuthConfig()
DefaultAuthConfig == AuthConfigOf(EmptyMap)

UpsertDeploymentRequest(spec, name, base_url, auth_config) ==
  [open_api_spec |-> spec, name |-> name, base_url |-> base_url,
   auth_config |-> auth_config]

\* request.model_dump(by_alias=True): the JSON body of the submission
RequestDump(req) ==
  MapOf(<< <<<<"o", "p", "e", "n", "A", "p", "i", "S", "p", "e", "c">>, SpecDump(req.open_api_spec)>>,
           <<<<"n", "a", "m", "e">>, req.name>>,
           <<<<"b", "a", "s", "e", "U", "r", "l">>, req.base_url>>,
           <<<<"a", "u", "t", "h", "C", "o", "n", "f", "i", "g">>,
             MapOf(<< <<K_passHeaders, req.auth_config.passHeaders>>,
                      <<K_passQueryParams, req.auth_config.passQueryParams>>,
                      <<K_passJsonBodyParams, req.auth_config.passJsonBodyParams>>,
                      <<K_passFormDataParams, req.auth_config.passFormDataParams>> >>)>> >>)

-----------------------------------------------------------------------------
(* Deploy orchestrator: tadata_sdk/core/sdk.py *)

\* datetime.now()
Now == [now |-> TRUE]

\* variant: the envelope's ok flag is not looked at
DeploymentResultIgnoringOk(response) ==
  IF response.data = VNull
  THEN Raise(SpecInvalidError(Msg("Unexpected response format"),
                              [response |-> response], "None"))
  ELSE Return([id |-> response.data.deployment.id,
               updated |-> response.data.updated,
               created_at |-> IF response.data.deployment.created_at # VNull
                              THEN response.data.deployment.created_at ELSE Now])

\* DeploymentResult.__init__
DeploymentResult(response) ==
  IF ~response.ok \/ response.data = VNull
  THEN Raise(SpecInvalidError(Msg("Unexpected response format"),
                              [response |-> response], "None"))
  ELSE Return([id |-> response.data.deployment.id,
               updated |-> response.data.updated,
               created_at |-> IF response.data.deployment.created_at # VNull
                              THEN response.data.deployment.created_at ELSE Now])

\* variant: the inline spec is left out of the count
source_count_without_inline(a) ==
  (IF a.openapi_spec_path # VNull THEN 1 ELSE 0)
    + (IF a.openapi_spec_url # VNull THEN 1 ELSE 0)

\* sum(1 for x in [path, url, spec] if x is not None)
source_count(a) ==
  (IF a.openapi_spec_path # VNull THEN 1 ELSE 0)
    + (IF a.openapi_spec_url # VNull THEN 1 ELSE 0)
    + (IF a.openapi_spec # VNull THEN 1 ELSE 0)

\* the input validation of deploy: the ValueError it raises, if any
SourceCheck(a) ==
  IF source_count(a) = 0
  THEN Raise(Exc("ValueError", Msg("must be provided"), {}, "None", NoDetails))
  ELSE IF source_count(a) > 1
  THEN Raise(Exc("ValueError", Msg("Only one of"), {}, "None", NoDetails))
  ELSE Return(VNull)

\* x in s for strings
Contains(s, sub) ==
  \E i \in 0..(Len(s) - Len(sub)) : \A j \in 1..Len(sub) : s[i + j] = sub[j]

\* variant: the extension of the URL path is looked at first
ParserForExtensionFirst(content_type, url) ==
  IF EndsWith(Lower(url.path), DotJson) THEN "json"
  ELSE IF EndsWith(Lower(url.path), DotYaml) \/ EndsWith(Lower(url.path), DotYml)
  THEN "yaml"
  ELSE IF Contains(content_type, <<"j", "s", "o", "n">>) THEN "json"
  ELSE IF Contains(content_type, <<"y", "a", "m", "l">>) \/ Contains(content_type, <<"y", "m", "l">>) THEN "yaml"
  ELSE "json"

\* the parser deploy applies to a fetched body
ParserFor(content_type, url) ==
  IF Contains(content_type, <<"j", "s", "o", "n">>) THEN "json"
  ELSE IF Contains(content_type, <<"y", "a", "m", "l">>) \/ Contains(content_type, <<"y", "m", "l">>) THEN "yaml"
  ELSE IF EndsWith(Lower(url.path), DotJson) THEN "json"
  ELSE IF EndsWith(Lower(url.path), DotYaml) \/ EndsWith(Lower(url.path), DotYml)
  THEN "yaml"
  ELSE "json"

\* outcomes of httpx.get(url)
Fetched(status, content_type, body) ==
  [kind |-> "response", status |-> status, content_type |-> content_type, body |-> body]
FetchHTTPError == [kind |-> "http_error"]
FetchInvalidURL == [kind |-> "invalid_url"]

\* variant: the except clause catches every exception
CatchesEverything(cls) == TRUE

\* the exceptions the except clause of the URL branch catches (httpx.HTTPError)
IsHTTPError(cls) == cls \in {"HTTPError", "HTTPStatusError", "RequestError"}

\* variant: a failed fetch is reported as a network error
FetchFailureAsNetworkError(url, cause) ==
  NetworkError(Msg("Failed to fetch OpenAPI spec from URL"), cause)

FetchFailure(url, cause) ==
  SpecInvalidError(Msg("Failed to fetch OpenAPI spec from URL"), [url |-> url], cause)

\* what the try block of the URL branch ends in; strict_status tells whether
\* raise_for_status() of the installed httpx raises on every non-2xx response
\* or only on 4xx and 5xx
UrlTry(url, f, strict_status) ==
  IF f.kind = "http_error" THEN Raise(Foreign("RequestError"))
  ELSE IF f.kind = "invalid_url" THEN Raise(Foreign("InvalidURL"))
  ELSE IF IsErrorStatus(f.status) \/ (~IsSuccessStatus(f.status) /\ strict_status)
  THEN Raise(Foreign("HTTPStatusError"))
  ELSE IF ParserFor(f.content_type, url) = "json" THEN from_json(f.body)
  ELSE from_yaml(f.body)

\* the URL branch of deploy
SpecFromUrl(url, f, strict_status) ==
  LET r == UrlTry(url, f, strict_status)
  IN  IF ~r.ok /\ IsHTTPError(r.err.cls) THEN Raise(FetchFailure(url, r.err.cls))
      ELSE r

-----------------------------------------------------------------------------
(* Inputs of deploy and behaviours of its environment *)

ValidInfo == MapOf(<< <<K_title, VStr(<<"T">>)>>, <<K_version, VStr(<<"1", ".", "0">>)>> >>)

OnePath == MapOf(<< <<<<"/", "1">>, MapOf(<< <<<<"2", "0", "0">>, VStr(<<"O", "K">>)>> >>)>> >>)

DocA == MkDoc(VStr(<<"3", ".", "0", ".", "0">>), ValidInfo, OnePath, <<>>)

DocB ==
  MkDoc(VStr(<<"3", ".", "1">>), ValidInfo, EmptyMap, << <<<<"s", "e", "r", "v", "e", "r", "s">>, VList(<<VStr(<<"u">>)>>)>> >>)

DocOld == MkDoc(VStr(<<"2", ".", "0">>), ValidInfo, OnePath, <<>>)

DocNoInfo == MkDoc(VStr(<<"3", ".", "0", ".", "0">>), Absent, OnePath, <<>>)

\* a document whose info object has more than the three declared fields
DocContact ==
  MkDoc(VStr(<<"3", ".", "0", ".", "0">>),
        MapOf(<< <<K_title, VStr(<<"T">>)>>, <<K_version, VStr(<<"1", ".", "0">>)>>,
                 <<K_description, VStr(<<"d">>)>>,
                 <<<<"c", "o", "n", "t", "a", "c", "t">>, MapOf(<< <<<<"n", "a", "m", "e">>, VStr(<<"m", "e">>)>> >>)>> >>),
        EmptyMap, <<>>)

DeployDocs == {DocA, DocB, DocOld, DocNoInfo, DocContact}

\* a YAML file whose x-date is an unquoted date
DatedYaml ==
  TMapping(<< <<Plain(K_openapi), Plain(<<"3", ".", "0", ".", "0">>)>>,
              <<Plain(K_info), YamlDump(ValidInfo)>>,
              <<Plain(K_paths), YamlDump(EmptyMap)>>,
              <<Plain(<<"x", "-", "d", "a", "t", "e">>), Plain(<<"2", "0", "2", "0", "-", "0", "1", "-", "0", "1">>)>> >>)

SpecTexts ==
  {JsonDumps(d) : d \in DeployDocs} \cup {YamlDump(d) : d \in DeployDocs}
    \cup {TMalformed, DatedYaml}

FileReads == {ReadOSError, ReadUndecodable} \cup {ReadText(t) : t \in SpecTexts}

SpecPaths ==
  {MkPath(<<"s", ".", "j", "s", "o", "n">>, FALSE), MkPath(<<"s", ".", "y", "a", "m", "l">>, FALSE), MkPath(<<"s", ".", "t", "x", "t">>, FALSE)}

MkUrl(path) == [path |-> path]

SpecUrls == {MkUrl(<<"/", "s", ".", "j", "s", "o", "n">>), MkUrl(<<"/", "s", ".", "y", "m", "l">>), MkUrl(<<"/", "s">>)}

ContentTypes == {<<>>, <<"A", "p", "p", "/", "J", "S", "O", "N">>, <<"a", "p", "p", "/", "j", "s", "o", "n">>, <<"t", "e", "x", "t", "/", "y", "a", "m", "l">>, <<"t", "e", "x", "t", "/", "p", "l", "a", "i", "n">>}

FetchStatuses == {200, 302, 404}

Fetches ==
  {FetchHTTPError, FetchInvalidURL}
    \cup {Fetched(st, ct, b) : st \in FetchStatuses, ct \in ContentTypes,
                               b \in {JsonDumps(DocA), YamlDump(DocA), JsonDumps(DocOld),
                                      DatedYaml, TMalformed}}

AuthConfigs ==
  {VNull,
   MapOf(<< <<K_passJsonBodyParams, VList(<<VStr(<<"t", "o", "k", "e", "n">>)>>)>> >>),
   MapOf(<< <<K_pass_headers, VList(<<VStr(<<"x", "-", "k", "e", "y">>)>>)>> >>),
   MapOf(<< <<K_passHeaders, VStr(<<"a", "u", "t", "h", "o", "r", "i", "z", "a", "t", "i", "o", "n">>)>> >>)}

\* OpenAPISpec instances a caller may hold: one as a loader built it, and one
\* whose openapi attribute the caller assigned afterwards (the model class is
\* neither frozen nor validates assignments)
SpecInstances ==
  {OpenAPISpecOf(DocA), [OpenAPISpecOf(DocA) EXCEPT !.openapi = <<"2", ".", "0">>]}

\* the keyword arguments of one call of deploy
DeployArgs ==
  [openapi_spec_path : {VNull} \cup SpecPaths,
   openapi_spec_url : {VNull} \cup SpecUrls,
   openapi_spec : {VNull} \cup DeployDocs \cup SpecInstances,
   auth_config : AuthConfigs]

\* response bodies of the deployment endpoint
DeploymentJson(id, created) ==
  MapOf(<< <<K_id, VStr(id)>> >> \o created)

DataJson(updated, deployment) ==
  MapOf(<< <<K_updated, VBool(updated)>>, <<K_deployment, deployment>> >>)

ErrorJson == MapOf(<< <<K_code, VStr(<<"A", "U", "T", "H", "_", "E", "R", "R", "O", "R">>)>>, <<K_message, VStr(<<"b", "a", "d", " ", "k", "e", "y">>)>> >>)

BodyValues ==
  {\* well-formed envelopes
   MapOf(<< <<K_ok, VBool(TRUE)>>, <<K_status, VInt(201)>>,
            <<K_data, DataJson(FALSE, DeploymentJson(<<"d", "1">>,
                        << <<K_createdAt, VStr(<<"2", "0", "2", "3", "-", "0", "1", "-", "0", "1">>)>> >>))>> >>),
   MapOf(<< <<K_ok, VBool(TRUE)>>, <<K_status, VInt(200)>>,
            <<K_data, DataJson(TRUE, DeploymentJson(<<"d", "2">>, <<>>))>> >>),
   MapOf(<< <<K_ok, VBool(TRUE)>>, <<K_status, VInt(200)>> >>),
   MapOf(<< <<K_ok, VBool(FALSE)>>, <<K_status, VInt(401)>>, <<K_error, ErrorJson>> >>),
   MapOf(<< <<K_ok, VBool(TRUE)>>, <<K_status, VInt(200)>>, <<K_error, ErrorJson>>,
            <<K_data, DataJson(FALSE, DeploymentJson(<<"d", "3">>, <<>>))>> >>),
   MapOf(<< <<K_ok, VBool(FALSE)>>, <<K_status, VInt(500)>>,
            <<K_data, DataJson(FALSE, DeploymentJson(<<"d", "4">>, <<>>))>> >>),
   MapOf(<< <<K_ok, VStr(<<"y", "e", "s">>)>>, <<K_status, VStr(<<"2", "0", "1">>)>>,
            <<K_data, DataJson(FALSE, DeploymentJson(<<"d", "5">>, <<>>))>> >>),
   \* mappings that are no envelope
   MapOf(<< <<K_ok, VBool(TRUE)>> >>),
   MapOf(<< <<K_ok, VStr(<<"m", "a", "y", "b", "e">>)>>, <<K_status, VInt(200)>> >>),
   MapOf(<< <<K_ok, VBool(TRUE)>>, <<K_status, VInt(200)>>, <<<<"e", "x", "t", "r", "a">>, VInt(1)>> >>),
   MapOf(<< <<K_error, MapOf(<< <<K_message, VStr(<<"b", "o", "o", "m">>)>> >>)>> >>),
   MapOf(<< <<K_error, VStr(<<"I", "n", "v", "a", "l", "i", "d", " ", "s", "p", "e", "c">>)>> >>),
   MapOf(<< <<K_error, VNull>> >>),
   \* JSON that is no mapping
   VList(<<>>), VStr(<<"x">>)}

\* texts that are not JSON: the empty body and plain text
NonJsonBodies == {Plain(<<>>), Plain(<<"o", "o", "p", "s">>), TMalformed}

Bodies == {JsonDumps(v) : v \in BodyValues} \cup NonJsonBodies

Statuses == {101, 200, 201, 204, 302, 400, 401, 403, 404, 500}

Exchanges == {RequestFailed} \cup {Response(st, b) : st \in Statuses, b \in Bodies}

-----------------------------------------------------------------------------
(* The state machine of deploy *)

VARIABLES
  pc,             \* position of the current call of deploy
  calls,          \* calls of deploy made so far
  args,           \* keyword arguments of the current call
  spec,           \* the resolved specification
  req,            \* the UpsertDeploymentRequest built
  fetch,          \* what httpx.get(url) produced
  exchange,       \* what the POST to the deployment endpoint produced
  client_result,  \* outcome of ApiClient.deploy_from_openapi
  raised,         \* the domain error a component raised into deploy
  outcome,        \* how the call of deploy ended
  io,             \* file reads, fetches, client calls and submissions of this call
  lcall,          \* the loader call made directly
  lres            \* what that loader call produced

vars ==
  <<pc, calls, args, spec, req, fetch, exchange, client_result, raised, outcome, io,
    lcall, lres>>

deployVars == <<pc, calls, args, spec, req, fetch, exchange, client_result, raised,
                outcome, io>>

loaderVars == <<lcall, lres>>

None == [none |-> TRUE]

NoIO == [reads |-> 0, fetches |-> 0, client_calls |-> 0, submits |-> 0]

NoArgs ==
  [openapi_spec_path |-> VNull, openapi_spec_url |-> VNull, openapi_spec |-> VNull,
   auth_config |-> VNull]

DeployIdle ==
  /\ pc = "idle"
  /\ calls = 0
  /\ args = NoArgs
  /\ spec = None
  /\ req = None
  /\ fetch = None
  /\ exchange = None
  /\ client_result = None
  /\ raised = None
  /\ outcome = None
  /\ io = NoIO

LoaderIdle ==
  /\ lcall = None
  /\ lres = None

Init == DeployIdle /\ LoaderIdle

\* variant: a failed submission is sent again
AfterWithRetry(r, next) ==
  IF r.ok THEN next ELSE IF next = "wrap" THEN "submit" ELSE "done"

\* the position after a step that ended in result r
After(r, next) == IF r.ok THEN next ELSE "done"

\* deploy is entered: the source check (sdk.py 128-141)
DeployCall(a) ==
  /\ pc = "idle"
  /\ calls' = calls + 1
  /\ args' = a
  /\ spec' = None
  /\ req' = None
  /\ fetch' = None
  /\ exchange' = None
  /\ client_result' = None
  /\ raised' = None
  /\ io' = NoIO
  /\ outcome' = IF SourceCheck(a).ok THEN None ELSE SourceCheck(a)
  /\ pc' = After(SourceCheck(a), "resolve")
  /\ UNCHANGED loaderVars

\* the step of deploy that resolves the spec: r is what the branch ends in,
\* c is what the Spec Loader called in it ended in (None when it was not called)
Resolved(r, c) ==
  /\ spec' = IF r.ok THEN r.val ELSE None
  /\ raised' = IF c = None \/ c.ok THEN None ELSE [by |-> "loader", err |-> c.err]
  /\ outcome' = IF r.ok THEN None ELSE r
  /\ pc' = After(r, "build")

\* sdk.py 145-147
ResolveFromFile ==
  /\ pc = "resolve"
  /\ args.openapi_spec_path # VNull
  /\ \E read \in FileReads :
       LET r == from_file(args.openapi_spec_path, read)
       IN  Resolved(r, r)
  /\ io' = [io EXCEPT !.reads = @ + 1]
  /\ UNCHANGED <<calls, args, req, fetch, exchange, client_result, loaderVars>>

\* whether the try block got as far as calling from_json / from_yaml
ParserCalled(url, f, strict_status) ==
  LET t == UrlTry(url, f, strict_status)
  IN  t.ok \/ t.err.cls = "SpecInvalidError"

\* sdk.py 148-178
ResolveFromUrl ==
  /\ pc = "resolve"
  /\ args.openapi_spec_path = VNull
  /\ args.openapi_spec_url # VNull
  /\ \E f \in Fetches, strict_status \in BOOLEAN :
       /\ fetch' = f
       /\ Resolved(SpecFromUrl(args.openapi_spec_url, f, strict_status),
                   IF ParserCalled(args.openapi_spec_url, f, strict_status)
                   THEN UrlTry(args.openapi_spec_url, f, strict_status) ELSE None)
  /\ io' = [io EXCEPT !.fetches = @ + 1]
  /\ UNCHANGED <<calls, args, req, exchange, client_result, loaderVars>>

\* sdk.py 179-181
ResolveFromDict ==
  /\ pc = "resolve"
  /\ args.openapi_spec_path = VNull
  /\ args.openapi_spec_url = VNull
  /\ "t" \in DOMAIN args.openapi_spec
  /\ IsMap(args.openapi_spec)
  /\ Resolved(from_dict(args.openapi_spec), from_dict(args.openapi_spec))
  /\ UNCHANGED <<calls, args, req, fetch, exchange, client_result, io, loaderVars>>

\* sdk.py 182-185
ResolveInstance ==
  /\ pc = "resolve"
  /\ args.openapi_spec_path = VNull
  /\ args.openapi_spec_url = VNull
  /\ "t" \notin DOMAIN args.openapi_spec
  /\ Resolved(Return(args.openapi_spec), None)
  /\ UNCHANGED <<calls, args, req, fetch, exchange, client_result, io, loaderVars>>

\* the auth config of the request (sdk.py 192-195)
AuthConfigFor(auth_config) ==
  IF auth_config = VNull THEN Return(DefaultAuthConfig)
  ELSE IF AuthConfigValid(auth_config) THEN Return(AuthConfigOf(auth_config))
  ELSE Raise(Foreign("ValidationError"))

\* sdk.py 192-212
BuildRequest ==
  /\ pc = "build"
  /\ LET ac == AuthConfigFor(args.auth_config)
     IN  /\ req' = IF ac.ok THEN UpsertDeploymentRequest(spec, VNull, VNull, ac.val)
                   ELSE None
         /\ outcome' = IF ac.ok THEN None ELSE ac
         /\ pc' = After(ac, "submit")
  /\ UNCHANGED <<calls, args, spec, fetch, exchange, client_result, raised, io,
                 loaderVars>>

\* client.deploy_from_openapi(request) (sdk.py 215): the body is encoded, the
\* POST is made once, and the response is mapped
Submit ==
  /\ pc = "submit"
  /\ IF ~JsonSerializable(RequestDump(req))
     THEN /\ exchange' = None
          /\ client_result' = Raise(Foreign("TypeError"))
          /\ io' = [io EXCEPT !.client_calls = @ + 1]
     ELSE \E x \in Exchanges :
            /\ exchange' = x
            /\ client_result' = deploy_from_openapi(x)
            /\ io' = [io EXCEPT !.client_calls = @ + 1, !.submits = @ + 1]
  /\ raised' = IF client_result'.ok THEN None
               ELSE [by |-> "transport", err |-> client_result'.err]
  /\ outcome' = IF client_result'.ok THEN None ELSE client_result'
  /\ pc' = After(client_result', "wrap")
  /\ UNCHANGED <<calls, args, spec, req, fetch, loaderVars>>

\* return DeploymentResult(api_response) (sdk.py 218)
Wrap ==
  /\ pc = "wrap"
  /\ outcome' = DeploymentResult(client_result.val)
  /\ pc' = "done"
  /\ UNCHANGED <<calls, args, spec, req, fetch, exchange, client_result, raised, io,
                 loaderVars>>

\* the call is over: nothing of it is kept for the next call
DeployReturn ==
  /\ pc = "done"
  /\ calls < MaxCalls
  /\ pc' = "idle"
  /\ args' = NoArgs
  /\ spec' = None
  /\ req' = None
  /\ fetch' = None
  /\ exchange' = None
  /\ client_result' = None
  /\ raised' = None
  /\ outcome' = None
  /\ io' = NoIO
  /\ UNCHANGED <<calls, loaderVars>>

Next ==
  \/ \E a \in DeployArgs : DeployCall(a)
  \/ DeployReturn
  \/ ResolveFromFile
  \/ ResolveFromUrl
  \/ ResolveFromDict
  \/ ResolveInstance
  \/ BuildRequest
  \/ Submit
  \/ Wrap

Spec == Init /\ [][Next]_vars

-----------------------------------------------------------------------------
(* The loader called directly: one document, one loader call on it *)

LoaderPaths ==
  {MkPath(<<"s", ".", "j", "s", "o", "n">>, FALSE), MkPath(<<"s", ".", "y", "a", "m", "l">>, TRUE), MkPath(<<"s", ".", "y", "m", "l">>, FALSE),
   MkPath(<<"S", ".", "J", "S", "O", "N">>, FALSE), MkPath(<<"s", ".", "t", "x", "t">>, FALSE), MkPath(<<".", "j", "s", "o", "n">>, FALSE)}

\* texts written by hand rather than dumped from a document
HandTexts ==
  {TMalformed, Plain(<<>>), DatedYaml,
   TMapping(<< <<Plain(K_openapi), Plain(<<"3", ".", "0">>)>>,
               <<Plain(K_info), YamlDump(ValidInfo)>>,
               <<Plain(K_paths), YamlDump(EmptyMap)>> >>)}

LoaderInit ==
  /\ DeployIdle
  /\ lcall \in {[op |-> "none", doc |-> d] : d \in Docs}
  /\ lres = None

LoaderFromDict ==
  /\ lcall.op = "none"
  /\ \E data \in {lcall.doc} \cup NonMappings :
       /\ lcall' = [op |-> "from_dict", doc |-> lcall.doc, data |-> data]
       /\ lres' = from_dict(data)
  /\ UNCHANGED deployVars

LoaderFromJson ==
  /\ lcall.op = "none"
  /\ \E text \in {JsonDumps(lcall.doc), YamlDump(lcall.doc)} \cup HandTexts :
       /\ lcall' = [op |-> "from_json", doc |-> lcall.doc, text |-> text]
       /\ lres' = from_json(text)
  /\ UNCHANGED deployVars

LoaderFromYaml ==
  /\ lcall.op = "none"
  /\ \E text \in {JsonDumps(lcall.doc), YamlDump(lcall.doc)} \cup HandTexts :
       /\ lcall' = [op |-> "from_yaml", doc |-> lcall.doc, text |-> text]
       /\ lres' = from_yaml(text)
  /\ UNCHANGED deployVars

LoaderFromFile ==
  /\ lcall.op = "none"
  /\ \E path \in LoaderPaths,
        read \in {ReadOSError, ReadUndecodable}
                   \cup {ReadText(t) : t \in {JsonDumps(lcall.doc), YamlDump(lcall.doc)}
                                              \cup HandTexts} :
       /\ lcall' = [op |-> "from_file", doc |-> lcall.doc, path |-> path, read |-> read]
       /\ lres' = from_file(path, read)
  /\ UNCHANGED deployVars

LoaderNext ==
  \/ LoaderFromDict
  \/ LoaderFromJson
  \/ LoaderFromYaml
  \/ LoaderFromFile

LoaderSpec == LoaderInit /\ [][LoaderNext]_vars

-----------------------------------------------------------------------------
(* Properties *)

\* how a finished call ended
RaisedCls(r) == IF r # None /\ ~r.ok THEN r.err.cls ELSE "none"

\* the spec sources the current call was given, counted on the arguments
GivenSources ==
  {k \in {"openapi_spec_path", "openapi_spec_url", "openapi_spec"} : args[k] # VNull}

NoIOAttempted ==
  /\ io.reads = 0 /\ io.fetches = 0 /\ io.client_calls = 0 /\ io.submits = 0
  /\ fetch = None /\ exchange = None /\ client_result = None

\* C1: a call of deploy with zero spec sources has failed with a ValueError
\* saying "must be provided", one with two or three sources with a ValueError
\* saying "Only one of", and in both cases no file was read, no URL fetched and
\* the transport client not invoked.
C1_ExactlyOneSource ==
  pc # "idle" =>
    /\ Cardinality(GivenSources) = 0 =>
         /\ pc = "done"
         /\ RaisedCls(outcome) = "ValueError"
         /\ outcome.err.msg = Msg("must be provided")
         /\ NoIOAttempted
    /\ Cardinality(GivenSources) > 1 =>
         /\ pc = "done"
         /\ RaisedCls(outcome) = "ValueError"
         /\ outcome.err.msg = Msg("Only one of")
         /\ NoIOAttempted

C1_Witness ==
  /\ pc = "done"
  /\ Cardinality(GivenSources) = 3
  /\ RaisedCls(outcome) = "ValueError"

\* C2: whatever the body, a 401 or 403 response makes deploy_from_openapi raise
\* AuthError, a 400, 404 or 500 response ApiError with the received status, and
\* a connection failure NetworkError carrying its cause.
C2_StatusMapping ==
  exchange # None =>
    /\ (exchange.kind = "response" /\ exchange.status \in {401, 403}) =>
         RaisedCls(client_result) = "AuthError"
    /\ (exchange.kind = "response" /\ exchange.status \in {400, 404, 500}) =>
         /\ RaisedCls(client_result) = "ApiError"
         /\ client_result.err.status = {exchange.status}
    /\ exchange.kind = "request_error" =>
         /\ RaisedCls(client_result) = "NetworkError"
         /\ client_result.err.cause = "RequestError"

C2_Witness ==
  /\ exchange # None
  /\ exchange.kind = "response"
  /\ exchange.status = 403
  /\ exchange.body = Plain(<<>>)
  /\ RaisedCls(client_result) = "AuthError"

\* C3: every response whose status is outside 200-299 and is neither 401 nor
\* 403 makes deploy_from_openapi raise ApiError with that status.
C3_NonSuccessIsApiError ==
  (exchange # None /\ exchange.kind = "response"
     /\ ~(200 <= exchange.status /\ exchange.status <= 299)
     /\ exchange.status \notin {401, 403}) =>
    /\ RaisedCls(client_result) = "ApiError"
    /\ client_result.err.status = {exchange.status}

\* C4: a 2xx response whose body does not decode into the envelope makes
\* deploy_from_openapi raise ApiError with the response's status and the parse
\* failure message, and no other kind of error.
C4_ParseFailureIsApiError ==
  (exchange # None /\ exchange.kind = "response"
     /\ 200 <= exchange.status /\ exchange.status <= 299
     /\ ~client_result.ok) =>
    /\ RaisedCls(client_result) = "ApiError"
    /\ client_result.err.status = {exchange.status}
    /\ client_result.err.msg = Msg("Failed to parse deployment response")

\* C5: when the transport client returns an envelope with ok = false and
\* status = 401, deploy fails with AuthError.
C5_ScenarioE ==
  (pc = "done" /\ client_result # None /\ client_result.ok
     /\ ~client_result.val.ok /\ client_result.val.status = 401) =>
    RaisedCls(outcome) = "AuthError"

DomainErrors == {"SpecInvalidError", "AuthError", "ApiError", "NetworkError"}

\* C6: a call of deploy ends in a DeploymentResult or in one of ValueError
\* (or a subclass of it), SpecInvalidError, AuthError, ApiError, NetworkError.
C6_ClosedTaxonomy ==
  pc = "done" =>
    \/ outcome.ok
    \/ outcome.err.cls \in DomainErrors
    \/ IsValueError(outcome.err.cls)

\* C7: an error the Spec Loader or the Transport Client raised during deploy is
\* the error deploy raises: same class, message, status code and details.
C7_PropagatedUnchanged ==
  (pc = "done" /\ raised # None) => outcome = Raise(raised.err)

C7_Witness ==
  /\ pc = "done"
  /\ raised # None
  /\ raised.by = "loader"
  /\ fetch # None
  /\ outcome = Raise(raised.err)

\* C8: in one call at most one fetch is made and only for a URL source; at
\* most one submission is made, exactly one when a result is returned; a
\* submission is made only with a resolved specification; and after a failed
\* fetch or submission nothing is sent again.
C8_CallProtocol ==
  /\ io.fetches <= 1
  /\ io.fetches = 1 => args.openapi_spec_url # VNull
  /\ io.submits <= 1
  /\ (pc = "done" /\ outcome.ok) => io.submits = 1
  /\ io.submits = 1 => (spec # None /\ req # None /\ req.open_api_spec = spec)
  /\ (pc = "done" /\ spec = None) => io.submits = 0

C8_Witness ==
  /\ pc = "done"
  /\ outcome.ok
  /\ io.fetches = 1
  /\ io.submits = 1

\* the loader call was made on the drawn document itself: from_dict on the
\* mapping, from_json on its JSON text, from_yaml on its YAML text, from_file on
\* a .json file holding the JSON text or a .yaml / .yml file holding the YAML text
OnOwnEncoding ==
  \/ lcall.op = "from_dict" /\ lcall.data = lcall.doc
  \/ lcall.op = "from_json" /\ lcall.text = JsonDumps(lcall.doc)
  \/ lcall.op = "from_yaml" /\ lcall.text = YamlDump(lcall.doc)
  \/ /\ lcall.op = "from_file"
     /\ \/ /\ Lower(Suffix(lcall.path)) = DotJson
           /\ lcall.read = ReadText(JsonDumps(lcall.doc))
        \/ /\ Lower(Suffix(lcall.path)) \in {DotYaml, DotYml}
           /\ lcall.read = ReadText(YamlDump(lcall.doc))

\* the document's openapi field is a string beginning with "3."
VersionIsThreeDot(d) ==
  /\ Has(d, K_openapi)
  /\ IsStr(Get(d, K_openapi))
  /\ Len(Get(d, K_openapi).s) >= 2
  /\ Get(d, K_openapi).s[1] = "3"
  /\ Get(d, K_openapi).s[2] = "."

\* C9: for a document whose openapi field does not start with "3.", from_dict,
\* from_json, from_yaml and from_file (.json, .yaml, .yml) all fail with
\* SpecInvalidError.
C9_BadVersionRejected ==
  (OnOwnEncoding /\ ~VersionIsThreeDot(lcall.doc)) =>
    RaisedCls(lres) = "SpecInvalidError"

C9_Witness ==
  /\ lcall.op = "from_file"
  /\ OnOwnEncoding
  /\ Suffix(lcall.path) = DotYml
  /\ Has(lcall.doc, K_openapi)
  /\ Get(lcall.doc, K_openapi) = VStr(<<"3", "0">>)
  /\ RaisedCls(lres) = "SpecInvalidError"

\* openapi begins with "3.", info.title and info.version are strings, paths
\* is a mapping
ValidDocument(d) ==
  /\ VersionIsThreeDot(d)
  /\ Has(d, K_info) /\ IsMap(Get(d, K_info))
  /\ Has(Get(d, K_info), K_title) /\ IsStr(Get(Get(d, K_info), K_title))
  /\ Has(Get(d, K_info), K_version) /\ IsStr(Get(Get(d, K_info), K_version))
  /\ Has(d, K_paths) /\ IsMap(Get(d, K_paths))

\* C10: for a valid document, from_json on its JSON encoding, from_yaml on its
\* YAML encoding and from_file on a file holding the encoding return the
\* Specification from_dict returns on the mapping, field for field.
C10_FormatEquivalence ==
  (OnOwnEncoding /\ ValidDocument(lcall.doc)) =>
    /\ lres.ok
    /\ lres = from_dict(lcall.doc)
    /\ lres.val.openapi = Get(lcall.doc, K_openapi).s
    /\ lres.val.info.title = Get(Get(lcall.doc, K_info), K_title).s
    /\ lres.val.info.version = Get(Get(lcall.doc, K_info), K_version).s
    /\ lres.val.paths = Get(lcall.doc, K_paths)

C10_Witness ==
  /\ lcall.op = "from_file"
  /\ OnOwnEncoding
  /\ Suffix(lcall.path) = DotYaml
  /\ ValidDocument(lcall.doc)
  /\ Get(Get(lcall.doc, K_info), K_title) = VStr(<<"y", "e", "s">>)
  /\ DOMAIN Get(lcall.doc, K_paths).m # {}
  /\ lres.ok


\* the file name ends in ext, whatever the case of its letters
NameEndsIn(name, ext) ==
  /\ Len(name) >= Len(ext)
  /\ Lower(SubSeq(name, Len(name) - Len(ext) + 1, Len(name))) = ext

\* the file name has the extension ext: it ends in ext after a non-empty stem
HasExtension(name, ext) == Len(name) > Len(ext) /\ NameEndsIn(name, ext)

\* the context of a from_file failure: the absolute form of the path given
ResolvedPathContext == [file_path |-> [name |-> lcall.path.name, abs |-> TRUE]]

\* a from_file failure that carries the resolved path
FailsWithPath(msg) ==
  /\ RaisedCls(lres) = "SpecInvalidError"
  /\ lres.err.msg = Msg(msg)
  /\ lres.err.details = ResolvedPathContext

\* C11: from_file dispatches on the extension of the file name (the part from
\* its last dot, after a non-empty stem, letters in any case): .json is parsed
\* as JSON, .yaml and .yml as YAML, and a readable path with any other or no
\* extension (a file named ".json" has none) fails with SpecInvalidError; a
\* read that fails with an OSError fails with SpecInvalidError whatever the
\* extension; both failures carry the resolved path.
C11_DispatchByExtension ==
  lcall.op = "from_file" =>
    /\ lcall.read.io = "oserror" => FailsWithPath("Failed to read file")
    /\ lcall.read.io = "text" =>
         IF HasExtension(lcall.path.name, <<".", "j", "s", "o", "n">>)
         THEN lres = from_json(lcall.read.text)
         ELSE IF HasExtension(lcall.path.name, <<".", "y", "a", "m", "l">>)
                   \/ HasExtension(lcall.path.name, <<".", "y", "m", "l">>)
         THEN lres = from_yaml(lcall.read.text)
         ELSE FailsWithPath("Unsupported file extension")

C11_Witness ==
  /\ lcall.op = "from_file"
  /\ lcall.path.name = <<".", "j", "s", "o", "n">>
  /\ ~lcall.path.abs
  /\ lcall.read.io = "text"
  /\ JsonValid(lcall.read.text)
  /\ FailsWithPath("Unsupported file extension")


\* the fetch of the current call failed: httpx.get raised a transport error
\* (connection failure, timeout) or the spec host answered with a 4xx / 5xx
FetchFailed ==
  /\ fetch # None
  /\ \/ fetch.kind = "http_error"
     \/ fetch.kind = "response" /\ 400 <= fetch.status /\ fetch.status <= 599

\* C12: when the fetch of a URL source fails with a connection failure, a
\* timeout or an error status of the spec host, deploy has failed with
\* SpecInvalidError whose cause is the transport error and whose details hold
\* the URL, and neither the transport client nor the submission was reached.
C12_FetchFailureIsSpecInvalid ==
  FetchFailed =>
    /\ pc = "done"
    /\ RaisedCls(outcome) = "SpecInvalidError"
    /\ outcome.err.msg = Msg("Failed to fetch OpenAPI spec from URL")
    /\ outcome.err.cause =
         (IF fetch.kind = "http_error" THEN "RequestError" ELSE "HTTPStatusError")
    /\ outcome.err.details = [url |-> args.openapi_spec_url]
    /\ io.client_calls = 0
    /\ io.submits = 0
    /\ exchange = None

C12_Witness ==
  /\ FetchFailed
  /\ fetch.kind = "response"
  /\ fetch.status = 404
  /\ fetch.body = JsonDumps(DocA)
  /\ RaisedCls(outcome) = "SpecInvalidError"
  /\ outcome.err.cause = "HTTPStatusError"


\* the envelope the transport client handed to deploy
Envelope == client_result.val

\* the deployment object of the response body as it came over the wire
WireDeployment == Get(Get(JsonLoads(exchange.body), K_data), K_deployment)

\* C13: deploy returns a DeploymentResult only for an envelope with ok = true
\* and data present; its id, updated and (when the server sent createdAt)
\* created_at are those of the envelope's data, as they came over the wire; an
\* envelope with ok = true and no data makes deploy fail with SpecInvalidError.
C13_ResultMapping ==
  /\ (pc = "done" /\ outcome.ok) =>
       /\ client_result # None /\ client_result.ok
       /\ Envelope.ok = TRUE
       /\ Envelope.data # VNull
       /\ outcome.val.id = Envelope.data.deployment.id
       /\ outcome.val.id = Get(WireDeployment, K_id).s
       /\ outcome.val.updated = Envelope.data.updated
       /\ Envelope.data.deployment.created_at # VNull =>
            outcome.val.created_at = Envelope.data.deployment.created_at
       /\ (Has(WireDeployment, K_createdAt) /\ Get(WireDeployment, K_createdAt) # VNull) =>
            outcome.val.created_at = Get(WireDeployment, K_createdAt)
  /\ (pc = "done" /\ client_result # None /\ client_result.ok
        /\ Envelope.ok /\ Envelope.data = VNull) =>
       /\ RaisedCls(outcome) = "SpecInvalidError"
       /\ outcome.err.msg = Msg("Unexpected response format")

C13_Witness ==
  /\ pc = "done"
  /\ outcome.ok
  /\ exchange.status = 201
  /\ outcome.val.id = <<"d", "1">>
  /\ outcome.val.updated = FALSE
  /\ outcome.val.created_at = VStr(<<"2", "0", "2", "3", "-", "0", "1", "-", "0", "1">>)


\* C14: in every DeploymentResponse deploy_from_openapi returns, data is
\* present only when ok is true, error only when ok is false, and exactly one
\* of the two is present.
C14_EnvelopeInvariant ==
  (client_result # None /\ client_result.ok) =>
    /\ client_result.val.data # VNull => client_result.val.ok
    /\ client_result.val.error # VNull => ~client_result.val.ok
    /\ (client_result.val.data # VNull) # (client_result.val.error # VNull)


\* a list of strings as a value
StrList(ss) == VList([i \in 1..Len(ss) |-> VStr(ss[i])])

\* the authConfig object of the body submitted
SubmittedAuthConfig == Get(RequestDump(req), <<"a", "u", "t", "h", "C", "o", "n", "f", "i", "g">>)

\* the names under which the caller may give each field
AuthFieldNames ==
  [passHeaders |-> {VStr(<<"p", "a", "s", "s", "H", "e", "a", "d", "e", "r", "s">>), VStr(<<"p", "a", "s", "s", "_", "h", "e", "a", "d", "e", "r", "s">>)},
   passQueryParams |-> {VStr(<<"p", "a", "s", "s", "Q", "u", "e", "r", "y", "P", "a", "r", "a", "m", "s">>), VStr(<<"p", "a", "s", "s", "_", "q", "u", "e", "r", "y", "_", "p", "a", "r", "a", "m", "s">>)},
   passJsonBodyParams |-> {VStr(<<"p", "a", "s", "s", "J", "s", "o", "n", "B", "o", "d", "y", "P", "a", "r", "a", "m", "s">>), VStr(<<"p", "a", "s", "s", "_", "j", "s", "o", "n", "_", "b", "o", "d", "y", "_", "p", "a", "r", "a", "m", "s">>)},
   passFormDataParams |-> {VStr(<<"p", "a", "s", "s", "F", "o", "r", "m", "D", "a", "t", "a", "P", "a", "r", "a", "m", "s">>), VStr(<<"p", "a", "s", "s", "_", "f", "o", "r", "m", "_", "d", "a", "t", "a", "_", "p", "a", "r", "a", "m", "s">>)}]

\* the key of each field in the body
AuthFieldKey ==
  [passHeaders |-> <<"p", "a", "s", "s", "H", "e", "a", "d", "e", "r", "s">>,
   passQueryParams |-> <<"p", "a", "s", "s", "Q", "u", "e", "r", "y", "P", "a", "r", "a", "m", "s">>,
   passJsonBodyParams |-> <<"p", "a", "s", "s", "J", "s", "o", "n", "B", "o", "d", "y", "P", "a", "r", "a", "m", "s">>,
   passFormDataParams |-> <<"p", "a", "s", "s", "F", "o", "r", "m", "D", "a", "t", "a", "P", "a", "r", "a", "m", "s">>]

\* the caller's auth config gives the field
Overrides(field) ==
  args.auth_config # VNull /\ DOMAIN args.auth_config.m \cap AuthFieldNames[field] # {}

\* every field the caller did not give has the value `defaults` names for it
KeepsDefaults(defaults) ==
  \A field \in DOMAIN defaults :
    ~Overrides(field) =>
      Get(SubmittedAuthConfig, AuthFieldKey[field]) = defaults[field]

\* the defaults as the spec states them
StatedDefaults ==
  [passHeaders |->
     StrList(<<<<"a", "u", "t", "h", "o", "r", "i", "z", "a", "t", "i", "o", "n">>, <<"a", "p", "i", "-", "k", "e", "y">>, <<"a", "p", "i", "_", "k", "e", "y">>, <<"a", "p", "i", "k", "e", "y">>, <<"x", "-", "a", "p", "i", "-", "k", "e", "y">>, <<"x", "-", "a", "p", "i", "k", "e", "y">>>>),
   passQueryParams |-> VList(<<>>),
   passJsonBodyParams |-> VList(<<>>),
   passFormDataParams |-> VList(<<>>)]

\* the defaults with the query parameters the SDK passes through
ActualDefaults ==
  [StatedDefaults EXCEPT
     !.passQueryParams = StrList(<<<<"a", "p", "i", "-", "k", "e", "y">>, <<"a", "p", "i", "_", "k", "e", "y">>, <<"a", "p", "i", "k", "e", "y">>>>)]

\* C15 as stated: the request submitted has passHeaders equal to the fixed
\* list of six header names and passQueryParams, passJsonBodyParams and
\* passFormDataParams empty, for every field the caller did not give.
C15_DefaultsAsStated ==
  io.submits = 1 => KeepsDefaults(StatedDefaults)

\* C15: the request submitted has, for every field the caller did not give,
\* passHeaders equal to the fixed list of six header names, passQueryParams
\* equal to the fixed list api-key, api_key, apikey, and passJsonBodyParams
\* and passFormDataParams empty.
C15_AuthConfigDefaults ==
  io.submits = 1 => KeepsDefaults(ActualDefaults)

C15_Witness ==
  /\ io.submits = 1
  /\ Overrides("passJsonBodyParams")
  /\ Get(SubmittedAuthConfig, <<"p", "a", "s", "s", "J", "s", "o", "n", "B", "o", "d", "y", "P", "a", "r", "a", "m", "s">>) = StrList(<<<<"t", "o", "k", "e", "n">>>>)
  /\ Get(SubmittedAuthConfig, <<"p", "a", "s", "s", "Q", "u", "e", "r", "y", "P", "a", "r", "a", "m", "s">>) # VList(<<>>)
  /\ KeepsDefaults(ActualDefaults)


\* the openApiSpec object of the body submitted
SubmittedSpec == Get(RequestDump(req), <<"o", "p", "e", "n", "A", "p", "i", "S", "p", "e", "c">>)

RECURSIVE Preserved(_, _)
\* nothing of the value `given` is missing or changed in `sent`: a mapping
\* keeps every key with its value preserved, any other value is equal
Preserved(given, sent) ==
  IF IsMap(given)
  THEN /\ IsMap(sent)
       /\ \A k \in DOMAIN given.m : k \in DOMAIN sent.m /\ Preserved(given.m[k], sent.m[k])
  ELSE given = sent

\* C16: when deploy is given a raw mapping, every top-level field of it is in
\* the openApiSpec of the body submitted, with nothing of its value dropped
\* or changed.
C16_FullSpecSubmitted ==
  (io.submits = 1 /\ "t" \in DOMAIN args.openapi_spec /\ IsMap(args.openapi_spec)) =>
    Preserved(args.openapi_spec, SubmittedSpec)


\* C17: every Specification handed to the transport client has an openapi
\* version beginning with "3.", whichever source it came from.
C17_HandedSpecIsValid ==
  io.client_calls = 1 =>
    /\ Len(req.open_api_spec.openapi) >= 2
    /\ req.open_api_spec.openapi[1] = "3"
    /\ req.open_api_spec.openapi[2] = "."

\* the same for the specifications deploy builds itself, from a file, a URL
\* or a raw mapping
HandedSpecIsValidWhenLoaded ==
  (io.client_calls = 1 /\ "t" \in DOMAIN args.openapi_spec) =>
    /\ Len(req.open_api_spec.openapi) >= 2
    /\ req.open_api_spec.openapi[1] = "3"
    /\ req.open_api_spec.openapi[2] = "."


\* C18: an ApiError raised for an error response carries the parsed JSON body
\* whenever the response body is valid JSON, and the raw text body only when
\* it is not.
C18_ParsedBodyCarried ==
  (exchange # None /\ exchange.kind = "response"
     /\ 400 <= exchange.status /\ exchange.status <= 599
     /\ RaisedCls(client_result) = "ApiError") =>
    client_result.err.details.body =
      (IF JsonValid(exchange.body) THEN JsonLoads(exchange.body)
       ELSE [body_text |-> exchange.body])


\* the header value, as sent, has the word in it
Names(content_type, word) ==
  \E i \in 1..(Len(content_type) - Len(word) + 1) :
    SubSeq(content_type, i, i + Len(word) - 1) = word

\* the URL path ends in the extension, whatever the case of its letters
PathHasExtension(url, ext) ==
  /\ Len(url.path) >= Len(ext)
  /\ Lower(SubSeq(url.path, Len(url.path) - Len(ext) + 1, Len(url.path))) = ext

\* the parser the stated precedence selects
SelectedParser(content_type, url) ==
  IF Names(content_type, <<"j", "s", "o", "n">>) THEN "json"
  ELSE IF Names(content_type, <<"y", "a", "m", "l">>) \/ Names(content_type, <<"y", "m", "l">>) THEN "yaml"
  ELSE IF PathHasExtension(url, <<".", "j", "s", "o", "n">>) THEN "json"
  ELSE IF PathHasExtension(url, <<".", "y", "a", "m", "l">>) \/ PathHasExtension(url, <<".", "y", "m", "l">>) THEN "yaml"
  ELSE "json"

\* what the selected parser alone makes of the fetched body
SelectedParse ==
  IF SelectedParser(fetch.content_type, args.openapi_spec_url) = "json"
  THEN from_json(fetch.body) ELSE from_yaml(fetch.body)

\* C19: for a spec fetched with status 200 the parser is selected by the
\* content-type if it has json in it, else if it has yaml or yml in it, else
\* by the extension of the URL path, else it is the JSON parser; the call goes
\* on with exactly what that one parser returns, or fails with exactly what it
\* raises.
C19_ParserPrecedence ==
  (fetch # None /\ fetch.kind = "response" /\ fetch.status = 200) =>
    IF SelectedParse.ok
    THEN spec = SelectedParse.val
    ELSE pc = "done" /\ spec = None /\ outcome = SelectedParse

C19_Witness ==
  /\ fetch # None /\ fetch.kind = "response" /\ fetch.status = 200
  /\ fetch.content_type = <<"t", "e", "x", "t", "/", "y", "a", "m", "l">>
  /\ args.openapi_spec_url.path = <<"/", "s", ".", "j", "s", "o", "n">>
  /\ fetch.body = YamlDump(DocA)
  /\ spec = OpenAPISpecOf(DocA)
  /\ ~from_json(fetch.body).ok


\* C20: whatever the path and whatever reading the file gives (text of any
\* kind, an OSError, bytes that are not UTF-8), from_file returns a
\* Specification or raises SpecInvalidError.
C20_FromFileTotal ==
  lcall.op = "from_file" =>
    \/ lres.ok
    \/ RaisedCls(lres) = "SpecInvalidError"

\* the same when the file is read as text or the read fails with an OSError
FromFileTotalOnReadableText ==
  (lcall.op = "from_file" /\ lcall.read.io # "undecodable") =>
    \/ lres.ok
    \/ RaisedCls(lres) = "SpecInvalidError"


\* the response body is a JSON mapping whose error entry has a message
BodyHasErrorMessage ==
  /\ JsonValid(exchange.body)
  /\ IsMap(JsonLoads(exchange.body))
  /\ Has(JsonLoads(exchange.body), K_error)
  /\ IsMap(Get(JsonLoads(exchange.body), K_error))
  /\ Has(Get(JsonLoads(exchange.body), K_error), K_message)

=============================================================================
